---- MODULE Spec2Model ----
(***************************************************************************)
(* Training orchestration of frame_semantic_transformer/train.py:          *)
(*   - TrainDataModule: the three DataLoader providers;                    *)
(*   - TrainingModelWrapper: the per-step and per-epoch hooks;             *)
(*   - train(): device resolution, EarlyStopping wiring, Trainer.fit.      *)
(* Losses are integers in units of 1e-5; rounded averages are integers in  *)
(* units of 1e-4 (np.round(..., 4)).                                       *)
(***************************************************************************)
EXTENDS Integers, Sequences, FiniteSets, Bags, TLC

\* ------------------------------------------------------------------ bounds
MaxEpochs == 3
MaxPatience == 2
MaxSamples == 3
MaxBatchSize == 2
MaxWorkers == 2

None == "None"

\* an attribute no hook has assigned yet
Unassigned == [value |-> 0, of |-> "unset"]
\* callback_metrics before the first validation epoch has logged "val_loss"
NoMetric == [num |-> 0, den |-> 0]
\* Optional[Dataset]
NoDataset == [is_none |-> TRUE, samples |-> <<>>]
Some(samples) == [is_none |-> FALSE, samples |-> samples]

VARIABLES
    \* arguments of train() and the environment it runs in
    max_epochs, early_stopping_patience_epochs, save_only_last_epoch,
    use_gpu, precision, batch_size, gpu_available, model_losses, num_workers,
    \* TrainDataModule
    train_dataset, val_dataset, test_dataset,
    \* one DataLoader pass: partition, sampler order, batches delivered so far
    it_part, it_dataset, it_order, delivered, last_pass,
    \* the DataLoader's worker processes: next batch index to hand out, worker to hand
    \* it to, index queue of each worker, shared result queue, results held back
    send_idx, worker_queue_idx, index_queues, data_queue, task_info,
    \* train(): resolved device and trainer precision
    device, trainer_precision,
    \* Trainer.fit position
    pc, current_epoch, batch_idx, stop_reason, error,
    \* TrainingModelWrapper
    training_step_outputs, validation_step_outputs,
    average_training_loss, average_validation_loss,
    \* logged "val_loss" epoch metric: accumulators and last computed value
    val_loss_sum, val_loss_rows, val_loss,
    \* EarlyStopping callback
    best_score, wait_count, should_stop,
    \* outputs of the run
    checkpoints, summaries, monitored,
    \* optimizer steps applied to the model parameters (trainer.global_step), the
    \* operations executed so far, and the batch losses of the epoch being run
    global_step, trace, epoch_losses

configVars == <<max_epochs, early_stopping_patience_epochs, save_only_last_epoch,
                use_gpu, precision, batch_size, gpu_available, model_losses,
                num_workers, train_dataset, val_dataset, test_dataset>>
workerVars == <<send_idx, worker_queue_idx, index_queues, data_queue, task_info>>
dataVars == <<it_part, it_dataset, it_order, delivered, last_pass, workerVars>>
runVars == <<device, trainer_precision, pc, current_epoch, batch_idx, stop_reason,
             error, training_step_outputs, validation_step_outputs,
             average_training_loss, average_validation_loss,
             val_loss_sum, val_loss_rows, val_loss,
             best_score, wait_count, should_stop,
             checkpoints, summaries, monitored,
             global_step, trace, epoch_losses>>
vars == <<configVars, dataVars, runVars>>

\* ------------------------------------------------------------ small helpers
Min(a, b) == IF a < b THEN a ELSE b

RECURSIVE SumSeq(_)
SumSeq(s) == IF s = <<>> THEN 0 ELSE Head(s) + SumSeq(Tail(s))

RECURSIVE Flatten(_)
Flatten(ss) == IF ss = <<>> THEN <<>> ELSE Head(ss) \o Flatten(Tail(ss))

SeqToBag(s) == [x \in {s[i] : i \in 1..Len(s)} |-> Cardinality({i \in 1..Len(s) : s[i] = x})]

Permutations1(n) == {f \in [1..n -> 1..n] : \A i, j \in 1..n : f[i] = f[j] => i = j}

\* ------------------------------------------------------------ TaskSampleDataset
\* A partition of the corpus: n encoded samples; the corpus may repeat a sample.
DatasetOf(part, n) == [i \in 1..n |-> <<part, (i + 1) \div 2>>]

\* ------------------------------------------------------------ DataLoader
\* len(DataLoader) with drop_last=False
NumBatchesMutant(n, bs) == n \div bs
NumBatches(n, bs) == (n + bs - 1) \div bs

\* BatchSampler: the k-th group of at most bs consecutive indices of the order
BatchIndices(order, bs, k) == SubSeq(order, (k - 1) * bs + 1, Min(k * bs, Len(order)))

\* collate: stack the samples of the given indices
Collate(dataset, idxs) == [j \in 1..Len(idxs) |-> dataset[idxs[j]]]

\* SequentialSampler (shuffle=False) and RandomSampler (shuffle=True)
SequentialSampler(n) == [i \in 1..n |-> i]
RandomSampler(n) == Permutations1(n)
SamplerOrders(n, shuffle) == IF shuffle THEN RandomSampler(n) ELSE {SequentialSampler(n)}

\* truth value of `self.test_dataset`: None and a dataset of length 0 are falsy
TruthyMutant(dataset) == ~dataset.is_none
Truthy(dataset) == ~dataset.is_none /\ Len(dataset.samples) > 0

\* `self.test_dataset if self.test_dataset else self.val_dataset`
TestSource == IF Truthy(test_dataset) THEN test_dataset.samples ELSE val_dataset

\* DataLoader's default prefetch_factor: index batches outstanding per worker
PrefetchFactor == 2

NoQueues == [w \in 1..MaxWorkers |-> <<>>]
NoTasks == [send_idx |-> 1, worker_queue_idx |-> 1, index_queues |-> NoQueues]

\* _try_put_index: hand the next batch index, if any is left, to the next worker
TryPutIndex(st, nb) ==
    IF st.send_idx > nb
    THEN st
    ELSE [send_idx |-> st.send_idx + 1,
          worker_queue_idx |-> (st.worker_queue_idx % num_workers) + 1,
          index_queues |-> [st.index_queues EXCEPT ![st.worker_queue_idx] =
                                Append(@, st.send_idx)]]

\* the iterator's priming loop: `n` calls of _try_put_index
RECURSIVE Prefetch(_, _, _)
Prefetch(st, nb, n) == IF n = 0 THEN st ELSE Prefetch(TryPutIndex(st, nb), nb, n - 1)

\* start iterating a freshly built DataLoader over `dataset`
StartPass(part, dataset, shuffle) ==
    /\ it_part = None
    /\ \E order \in SamplerOrders(Len(dataset), shuffle) :
          it_order' = order
    /\ it_part' = part
    /\ it_dataset' = dataset
    /\ delivered' = <<>>
    /\ LET st == Prefetch(NoTasks, NumBatches(Len(dataset), batch_size),
                          PrefetchFactor * num_workers)
       IN  /\ send_idx' = st.send_idx
           /\ worker_queue_idx' = st.worker_queue_idx
           /\ index_queues' = st.index_queues
    /\ data_queue' = <<>>
    /\ task_info' = {}
    /\ UNCHANGED <<last_pass, configVars, runVars>>

ShuffleTrain == TRUE

train_dataloader == StartPass("train", train_dataset, ShuffleTrain)
val_dataloader == StartPass("val", val_dataset, FALSE)
test_dataloader == StartPass("test", TestSource, FALSE)

PassDone == Len(delivered) = NumBatches(Len(it_order), batch_size)

\* the dataset fetcher: the k-th batch of the pass, collated
Fetch(k) == Collate(it_dataset, BatchIndices(it_order, batch_size, k))

\* next(iterator) without workers: fetch and deliver the next batch of the pass
NextBatch ==
    /\ it_part # None
    /\ num_workers = 0
    /\ ~PassDone
    /\ delivered' = Append(delivered, Fetch(Len(delivered) + 1))
    /\ UNCHANGED <<it_part, it_dataset, it_order, last_pass, workerVars,
                   configVars, runVars>>

\* index of the batch the consumer has to return next
rcvd_idx == Len(delivered) + 1

\* a worker process takes the oldest index of its queue, fetches the batch and puts
\* the result on the shared queue
WorkerFetch(w) ==
    /\ it_part # None
    /\ w \in 1..num_workers
    /\ index_queues[w] # <<>>
    /\ LET idx == Head(index_queues[w])
       IN  data_queue' = Append(data_queue, [idx |-> idx, data |-> Fetch(idx)])
    /\ index_queues' = [index_queues EXCEPT ![w] = Tail(@)]
    /\ UNCHANGED <<it_part, it_dataset, it_order, delivered, last_pass,
                   send_idx, worker_queue_idx, task_info, configVars, runVars>>

\* _process_data: return the batch to the consumer and hand out one more index
ProcessData(data) ==
    /\ delivered' = Append(delivered, data)
    /\ LET st == TryPutIndex([send_idx |-> send_idx,
                              worker_queue_idx |-> worker_queue_idx,
                              index_queues |-> index_queues],
                             NumBatches(Len(it_order), batch_size))
       IN  /\ send_idx' = st.send_idx
           /\ worker_queue_idx' = st.worker_queue_idx
           /\ index_queues' = st.index_queues

\* `if idx != self._rcvd_idx`: only the batch that is due is returned
IsDueMutant(idx) == TRUE
IsDue(idx) == idx = rcvd_idx

\* next(iterator) with workers (_next_data): return the held-back result that is
\* due, else take a result from the shared queue and return it or hold it back
MultiProcessNext ==
    /\ it_part # None
    /\ num_workers > 0
    /\ ~PassDone
    /\ IF \E r \in task_info : r.idx = rcvd_idx
       THEN \E r \in task_info :
               /\ r.idx = rcvd_idx
               /\ task_info' = task_info \ {r}
               /\ ProcessData(r.data)
               /\ UNCHANGED data_queue
       ELSE /\ data_queue # <<>>
            /\ data_queue' = Tail(data_queue)
            /\ IF IsDue(Head(data_queue).idx)
               THEN /\ ProcessData(Head(data_queue).data)
                    /\ UNCHANGED task_info
               ELSE /\ task_info' = task_info \cup {Head(data_queue)}
                    /\ UNCHANGED <<delivered, send_idx, worker_queue_idx, index_queues>>
    /\ UNCHANGED <<it_part, it_dataset, it_order, last_pass, configVars, runVars>>

\* StopIteration: the pass is over; the provider can be restarted
StopIteration ==
    /\ it_part # None
    /\ PassDone
    /\ last_pass' = [part |-> it_part, batches |-> delivered]
    /\ it_part' = None
    /\ it_dataset' = <<>>
    /\ it_order' = <<>>
    /\ delivered' = <<>>
    /\ send_idx' = 1
    /\ worker_queue_idx' = 1
    /\ index_queues' = NoQueues
    /\ data_queue' = <<>>
    /\ task_info' = {}
    /\ UNCHANGED <<configVars, runVars>>

\* ------------------------------------------------------------ losses
\* a loss ratio num/den; den = 0 stands for +infinity (EarlyStopping's initial best)
Inf == [num |-> 1, den |-> 0]
Less(a, b) == a.num * b.den < b.num * a.den

\* np.round(torch.mean(torch.stack(outputs)).item(), 4): the unweighted mean of the
\* batch losses (units 1e-5) rounded half-to-even to units of 1e-4
Round4MeanMutant(outputs) == SumSeq(outputs) \div 10
Round4Mean(outputs) ==
    LET d == 10 * Len(outputs)
        q == SumSeq(outputs) \div d
        r == SumSeq(outputs) % d
    IN  IF 2 * r < d THEN q
        ELSE IF 2 * r > d THEN q + 1
        ELSE IF q % 2 = 0 THEN q ELSE q + 1

\* ------------------------------------------------------------ Trainer defaults
\* pl.Trainer(...) leaves num_sanity_val_steps at its default
NumSanityValSteps == 2

NumTrainBatches == NumBatches(Len(train_dataset), batch_size)
NumValBatches == NumBatches(Len(val_dataset), batch_size)
NumSanityBatches == Min(NumSanityValSteps, NumValBatches)

\* rows of the k-th validation batch (1-based)
ValBatchRows(k) == Len(BatchIndices(SequentialSampler(Len(val_dataset)), batch_size, k))

\* ------------------------------------------------------------ train(): set-up
\* torch.device("cuda" if use_gpu else "cpu")
ResolveDevice == IF use_gpu THEN "cuda" ELSE "cpu"

\* `if early_stopping_patience_epochs > 0:` the EarlyStopping callback is attached
EarlyStoppingEnabledMutant == early_stopping_patience_epochs >= 0
EarlyStoppingEnabled == early_stopping_patience_epochs > 0

\* an uncaught exception leaves the hook, trainer.fit and train(): no try/except
AfterErrorMutant(phase) == phase
AfterError(phase) == "Aborted"

\* lines 175-222 up to the start of trainer.fit: model.to(device) and
\* Trainer(gpus=1) raise when CUDA is requested on a machine without a GPU
TrainSetup ==
    /\ pc = "Idle"
    /\ device' = ResolveDevice
    /\ IF ResolveDevice = "cuda" /\ ~gpu_available
       THEN /\ pc' = AfterError(pc)
            /\ error' = "CudaUnavailable"
            /\ UNCHANGED trainer_precision
       ELSE /\ pc' = IF NumSanityBatches > 0 THEN "Sanity" ELSE "Train"
            /\ trainer_precision' = precision
            /\ UNCHANGED error
    /\ UNCHANGED <<current_epoch, batch_idx, stop_reason,
                   training_step_outputs, validation_step_outputs,
                   average_training_loss, average_validation_loss,
                   val_loss_sum, val_loss_rows, val_loss,
                   best_score, wait_count, should_stop,
                   checkpoints, summaries, monitored,
                   global_step, trace, epoch_losses>>
    /\ UNCHANGED <<configVars, dataVars>>

\* ------------------------------------------------------------ TrainingModelWrapper
\* rows of the k-th training batch (1-based); the permutation does not change them
TrainBatchRows(k) ==
    Len(BatchIndices(SequentialSampler(Len(train_dataset)), batch_size, k))

\* optimizer steps a step of the given kind applies: configure_optimizers' AdamW is
\* stepped once per training batch, validation and test steps run without update
StepUpdatesMutant(op) == 1
StepUpdates(op) == IF op = "train" THEN 1 ELSE 0

\* one executed operation: a step on a batch or a checkpoint write
Executed(op, batch, rows, ok) ==
    [op |-> op, epoch |-> current_epoch, batch |-> batch, rows |-> rows, ok |-> ok,
     params |-> global_step]

NoLosses == [train |-> <<>>, val |-> <<>>]

\* val_check_interval is left at 1.0: the validation loop is due after the last
\* training batch of the epoch
ValCheckDueMutant(batches_done) == batches_done = 1
ValCheckDue(batches_done) == batches_done = NumTrainBatches

\* validation_epoch_end: assigns self.average_validation_loss; `of` records which
\* validation pass produced the value ("sanity" or the epoch index)
validation_epoch_endMutant(old, outputs, of) ==
    IF old = Unassigned THEN [value |-> Round4Mean(outputs), of |-> of] ELSE old
validation_epoch_end(old, outputs, of) == [value |-> Round4Mean(outputs), of |-> of]

\* validation_step during the sanity check that precedes epoch 0
SanityValStep ==
    /\ pc = "Sanity"
    /\ batch_idx < NumSanityBatches
    /\ \E loss \in model_losses.val :
          validation_step_outputs' = Append(validation_step_outputs, loss)
    /\ batch_idx' = batch_idx + 1
    /\ trace' = Append(trace, Executed("sanity", batch_idx + 1,
                                       ValBatchRows(batch_idx + 1), TRUE))
    /\ global_step' = global_step + StepUpdates("sanity")
    /\ UNCHANGED epoch_losses
    /\ UNCHANGED <<device, trainer_precision, pc, current_epoch, stop_reason, error,
                   training_step_outputs, average_training_loss,
                   average_validation_loss, val_loss_sum, val_loss_rows, val_loss,
                   best_score, wait_count, should_stop,
                   checkpoints, summaries, monitored>>
    /\ UNCHANGED <<configVars, dataVars>>

\* validation_epoch_end of the sanity check; its logged metrics are discarded
SanityValEpochEnd ==
    /\ pc = "Sanity"
    /\ batch_idx = NumSanityBatches
    /\ average_validation_loss' =
          validation_epoch_end(average_validation_loss, validation_step_outputs, "sanity")
    /\ validation_step_outputs' = <<>>
    /\ batch_idx' = 0
    /\ pc' = "Train"
    /\ UNCHANGED <<global_step, trace, epoch_losses>>
    /\ UNCHANGED <<device, trainer_precision, current_epoch, stop_reason, error,
                   training_step_outputs, average_training_loss,
                   val_loss_sum, val_loss_rows, val_loss,
                   best_score, wait_count, should_stop,
                   checkpoints, summaries, monitored>>
    /\ UNCHANGED <<configVars, dataVars>>

\* training_step on the next training batch of the epoch; after the last batch
\* the validation loop runs inside the training epoch
TrainingStep ==
    /\ pc = "Train"
    /\ batch_idx < NumTrainBatches
    /\ \E loss \in model_losses.train :
          /\ training_step_outputs' = Append(training_step_outputs, loss)
          /\ epoch_losses' = [epoch_losses EXCEPT !.train = Append(@, loss)]
    /\ trace' = Append(trace, Executed("train", batch_idx + 1,
                                       TrainBatchRows(batch_idx + 1), TRUE))
    /\ global_step' = global_step + StepUpdates("train")
    /\ IF ValCheckDue(batch_idx + 1)
       THEN /\ batch_idx' = 0
            /\ pc' = IF NumValBatches > 0 THEN "Validate" ELSE "TrainEpochEnd"
       ELSE /\ batch_idx' = batch_idx + 1
            /\ UNCHANGED pc
    /\ UNCHANGED <<device, trainer_precision, current_epoch, stop_reason, error,
                   validation_step_outputs, average_training_loss,
                   average_validation_loss, val_loss_sum, val_loss_rows, val_loss,
                   best_score, wait_count, should_stop,
                   checkpoints, summaries, monitored>>
    /\ UNCHANGED <<configVars, dataVars>>

\* validation_step: self.log("val_loss", loss, on_epoch=True) accumulates the
\* epoch metric weighted by the rows of the batch
ValidationStep ==
    /\ pc = "Validate"
    /\ batch_idx < NumValBatches
    /\ \E loss \in model_losses.val :
          /\ validation_step_outputs' = Append(validation_step_outputs, loss)
          /\ val_loss_sum' = val_loss_sum + loss * ValBatchRows(batch_idx + 1)
          /\ epoch_losses' = [epoch_losses EXCEPT !.val = Append(@, loss)]
    /\ trace' = Append(trace, Executed("val", batch_idx + 1,
                                       ValBatchRows(batch_idx + 1), TRUE))
    /\ global_step' = global_step + StepUpdates("val")
    /\ val_loss_rows' = val_loss_rows + ValBatchRows(batch_idx + 1)
    /\ batch_idx' = batch_idx + 1
    /\ UNCHANGED <<device, trainer_precision, pc, current_epoch, stop_reason, error,
                   training_step_outputs, average_training_loss,
                   average_validation_loss, val_loss,
                   best_score, wait_count, should_stop,
                   checkpoints, summaries, monitored>>
    /\ UNCHANGED <<configVars, dataVars>>

\* validation_epoch_end of epoch current_epoch, then the logged epoch metric
\* "val_loss" is published to the callbacks
ValidationEpochEnd ==
    /\ pc = "Validate"
    /\ batch_idx = NumValBatches
    /\ average_validation_loss' =
          validation_epoch_end(average_validation_loss, validation_step_outputs,
                               ToString(current_epoch))
    /\ val_loss' = [num |-> val_loss_sum, den |-> val_loss_rows]
    /\ monitored' = Append(monitored, [num |-> val_loss_sum, den |-> val_loss_rows])
    /\ validation_step_outputs' = <<>>
    /\ val_loss_sum' = 0
    /\ val_loss_rows' = 0
    /\ batch_idx' = 0
    /\ pc' = "TrainEpochEnd"
    /\ UNCHANGED <<global_step, trace, epoch_losses>>
    /\ UNCHANGED <<device, trainer_precision, current_epoch, stop_reason, error,
                   training_step_outputs, average_training_loss,
                   best_score, wait_count, should_stop,
                   checkpoints, summaries>>
    /\ UNCHANGED <<configVars, dataVars>>

\* the path f"{output_dir}/epoch-{current_epoch}-train-loss-{t}-val-loss-{v}"
CheckpointPathMutant(epoch, t, v) == [epoch |-> 0, train_loss |-> t, val_loss |-> v]
CheckpointPath(epoch, t, v) == [epoch |-> epoch, train_loss |-> t, val_loss |-> v]

\* `not self.save_only_last_epoch or self.current_epoch == self.trainer.max_epochs - 1`
ShouldSaveMutantOffByOne(epoch) == ~save_only_last_epoch \/ epoch = max_epochs
ShouldSaveMutantAnd(epoch) == ~save_only_last_epoch /\ epoch = max_epochs - 1
ShouldSave(epoch) == ~save_only_last_epoch \/ epoch = max_epochs - 1

\* the averages of the epoch (EpochSummary), built in training_epoch_end
EpochSummary(epoch, t, v) ==
    [epoch_index |-> epoch, average_train_loss |-> t, average_validation_loss |-> v]

\* training_epoch_end: runs after the validation loop of the same epoch; reading
\* self.average_validation_loss before any validation_epoch_end raises AttributeError
training_epoch_end ==
    /\ pc = "TrainEpochEnd"
    /\ average_training_loss' = [value |-> Round4Mean(training_step_outputs),
                                 of |-> ToString(current_epoch)]
    /\ training_step_outputs' = <<>>
    /\ IF average_validation_loss = Unassigned
       THEN /\ pc' = AfterError(pc)
            /\ error' = "AttributeError"
            /\ UNCHANGED <<checkpoints, summaries, trace>>
       ELSE LET t == Round4Mean(training_step_outputs)
                v == average_validation_loss.value
            IN  /\ summaries' = Append(summaries, EpochSummary(current_epoch, t, v))
                /\ checkpoints' =
                      IF ShouldSave(current_epoch)
                      THEN Append(checkpoints,
                                  [path |-> CheckpointPath(current_epoch, t, v),
                                   val_of |-> average_validation_loss.of])
                      ELSE checkpoints
                /\ trace' = IF ShouldSave(current_epoch)
                            THEN Append(trace, Executed("save", 0, 0, TRUE))
                            ELSE trace
                /\ pc' = "Callbacks"
                /\ UNCHANGED error
    /\ UNCHANGED <<global_step, epoch_losses>>
    /\ UNCHANGED <<device, trainer_precision, current_epoch, batch_idx, stop_reason,
                   validation_step_outputs, average_validation_loss,
                   val_loss_sum, val_loss_rows, val_loss,
                   best_score, wait_count, should_stop, monitored>>
    /\ UNCHANGED <<configVars, dataVars>>

\* save_pretrained raises: the error leaves training_epoch_end and trainer.fit
CheckpointWriteError ==
    /\ pc = "TrainEpochEnd"
    /\ average_validation_loss # Unassigned
    /\ ShouldSave(current_epoch)
    /\ average_training_loss' = [value |-> Round4Mean(training_step_outputs),
                                 of |-> ToString(current_epoch)]
    /\ training_step_outputs' = <<>>
    /\ summaries' = Append(summaries,
                           EpochSummary(current_epoch, Round4Mean(training_step_outputs),
                                        average_validation_loss.value))
    /\ trace' = Append(trace, Executed("save", 0, 0, FALSE))
    /\ pc' = AfterError(pc)
    /\ error' = "CheckpointWriteError"
    /\ UNCHANGED <<global_step, epoch_losses>>
    /\ UNCHANGED <<device, trainer_precision, current_epoch, batch_idx, stop_reason,
                   validation_step_outputs, average_validation_loss,
                   val_loss_sum, val_loss_rows, val_loss,
                   best_score, wait_count, should_stop, checkpoints, monitored>>
    /\ UNCHANGED <<configVars, dataVars>>

\* _step: the forward pass raises on the next batch of the current phase
ForwardPassError ==
    /\ \/ pc = "Sanity" /\ batch_idx < NumSanityBatches
       \/ pc = "Train" /\ batch_idx < NumTrainBatches
       \/ pc = "Validate" /\ batch_idx < NumValBatches
    /\ trace' = Append(trace,
                       Executed(IF pc = "Sanity" THEN "sanity"
                                ELSE IF pc = "Train" THEN "train" ELSE "val",
                                batch_idx + 1,
                                IF pc = "Train" THEN TrainBatchRows(batch_idx + 1)
                                ELSE ValBatchRows(batch_idx + 1),
                                FALSE))
    /\ pc' = AfterError(pc)
    /\ error' = "ForwardPassError"
    /\ UNCHANGED <<global_step, epoch_losses>>
    /\ UNCHANGED <<device, trainer_precision, current_epoch, batch_idx, stop_reason,
                   training_step_outputs, validation_step_outputs,
                   average_training_loss, average_validation_loss,
                   val_loss_sum, val_loss_rows, val_loss,
                   best_score, wait_count, should_stop,
                   checkpoints, summaries, monitored>>
    /\ UNCHANGED <<configVars, dataVars>>

\* ------------------------------------------------------------ EarlyStopping
\* EarlyStopping(monitor="val_loss", min_delta=0.00, mode="min"): improvement is
\* current - min_delta < best
MonitorOpMutant(current, best) == ~Less(best, current)
MonitorOp(current, best) == Less(current, best)

\* `wait_count >= patience`
PatienceExhaustedMutant(wait) == wait > early_stopping_patience_epochs
PatienceExhausted(wait) == wait >= early_stopping_patience_epochs

\* Trainer(max_epochs=max_epochs): the fit loop is done after epoch max_epochs-1
MaxEpochsReachedMutant(epoch) == epoch + 1 > max_epochs
MaxEpochsReached(epoch) == epoch + 1 >= max_epochs

\* end of the training epoch: the callbacks' on_train_epoch_end (EarlyStopping, when
\* attached, checks the published "val_loss"), then the fit loop stops or advances
OnTrainEpochEnd ==
    /\ pc = "Callbacks"
    /\ IF EarlyStoppingEnabled
       THEN IF MonitorOp(val_loss, best_score)
            THEN /\ best_score' = val_loss
                 /\ wait_count' = 0
                 /\ UNCHANGED should_stop
            ELSE /\ wait_count' = wait_count + 1
                 /\ should_stop' = (should_stop \/ PatienceExhausted(wait_count + 1))
                 /\ UNCHANGED best_score
       ELSE UNCHANGED <<best_score, wait_count, should_stop>>
    /\ IF should_stop'
       THEN /\ pc' = "Stopped"
            /\ stop_reason' = "EarlyStopped"
            /\ UNCHANGED current_epoch
       ELSE IF MaxEpochsReached(current_epoch)
       THEN /\ pc' = "Stopped"
            /\ stop_reason' = "Completed"
            /\ UNCHANGED current_epoch
       ELSE /\ pc' = "Train"
            /\ current_epoch' = current_epoch + 1
            /\ UNCHANGED stop_reason
    /\ epoch_losses' = NoLosses
    /\ UNCHANGED <<device, trainer_precision, batch_idx, error,
                   training_step_outputs, validation_step_outputs,
                   average_training_loss, average_validation_loss,
                   val_loss_sum, val_loss_rows, val_loss,
                   checkpoints, summaries, monitored, global_step, trace>>
    /\ UNCHANGED <<configVars, dataVars>>

\* ------------------------------------------------------------ specifications
\* loss values (units 1e-5) the model collaborator reports in a run, per phase
RunLosses == {90000, 100005}

DataIdle ==
    /\ it_part = None
    /\ it_dataset = <<>>
    /\ it_order = <<>>
    /\ delivered = <<>>
    /\ last_pass = [part |-> None, batches |-> <<>>]
    /\ send_idx = 1
    /\ worker_queue_idx = 1
    /\ index_queues = NoQueues
    /\ data_queue = <<>>
    /\ task_info = {}

RunIdle ==
    /\ device = None
    /\ trainer_precision = 0
    /\ pc = "Idle"
    /\ current_epoch = 0
    /\ batch_idx = 0
    /\ stop_reason = None
    /\ error = None
    /\ training_step_outputs = <<>>
    /\ validation_step_outputs = <<>>
    /\ average_training_loss = Unassigned
    /\ average_validation_loss = Unassigned
    /\ val_loss_sum = 0
    /\ val_loss_rows = 0
    /\ val_loss = NoMetric
    /\ best_score = Inf
    /\ wait_count = 0
    /\ should_stop = FALSE
    /\ checkpoints = <<>>
    /\ summaries = <<>>
    /\ monitored = <<>>
    /\ global_step = 0
    /\ trace = <<>>
    /\ epoch_losses = NoLosses

\* a call of train(...): the corpus partitions are fixed and not empty. The device
\* arguments are the defaults (use_gpu = torch.cuda.is_available(), precision = 32)
\* for every max_epochs, and every explicit combination for one-epoch runs.
Init ==
    /\ max_epochs \in 1..MaxEpochs
    /\ early_stopping_patience_epochs \in 0..MaxPatience
    /\ save_only_last_epoch \in BOOLEAN
    /\ use_gpu \in BOOLEAN
    /\ gpu_available \in BOOLEAN
    /\ precision \in {16, 32}
    /\ \/ use_gpu = gpu_available /\ precision = 32
       \/ max_epochs = 1
    /\ batch_size = MaxBatchSize
    /\ num_workers = 0
    /\ model_losses = [train |-> RunLosses, val |-> RunLosses]
    /\ train_dataset = DatasetOf("train", MaxSamples)
    /\ val_dataset = DatasetOf("dev", MaxSamples)
    /\ test_dataset = Some(DatasetOf("test", MaxSamples))
    /\ DataIdle
    /\ RunIdle

Next ==
    \/ TrainSetup
    \/ SanityValStep
    \/ SanityValEpochEnd
    \/ TrainingStep
    \/ ValidationStep
    \/ ValidationEpochEnd
    \/ training_epoch_end
    \/ CheckpointWriteError
    \/ ForwardPassError
    \/ OnTrainEpochEnd

Spec == Init /\ [][Next]_vars

\* the data module alone: the providers are started, iterated and restarted
InitData ==
    /\ max_epochs = 1
    /\ early_stopping_patience_epochs = 0
    /\ save_only_last_epoch = FALSE
    /\ use_gpu = FALSE
    /\ gpu_available = FALSE
    /\ precision = 32
    /\ batch_size \in 1..MaxBatchSize
    /\ num_workers = 0
    /\ model_losses = [train |-> RunLosses, val |-> RunLosses]
    /\ train_dataset \in {DatasetOf("train", n) : n \in 0..MaxSamples}
    /\ val_dataset \in {DatasetOf("dev", n) : n \in 0..MaxSamples}
    /\ test_dataset \in {NoDataset} \cup {Some(DatasetOf("test", n)) : n \in 0..MaxSamples}
    /\ DataIdle
    /\ RunIdle

NextData ==
    \/ train_dataloader
    \/ val_dataloader
    \/ test_dataloader
    \/ NextBatch
    \/ StopIteration

SpecData == InitData /\ [][NextData]_vars

\* the data module with worker processes: every num_workers, every interleaving of
\* the workers with each other and with the consumer
InitWorkers ==
    /\ max_epochs = 1
    /\ early_stopping_patience_epochs = 0
    /\ save_only_last_epoch = FALSE
    /\ use_gpu = FALSE
    /\ gpu_available = FALSE
    /\ precision = 32
    /\ batch_size \in 1..MaxBatchSize
    /\ num_workers \in 0..MaxWorkers
    /\ model_losses = [train |-> RunLosses, val |-> RunLosses]
    /\ train_dataset = DatasetOf("train", MaxSamples)
    /\ val_dataset = DatasetOf("dev", MaxSamples)
    /\ test_dataset \in {NoDataset, Some(DatasetOf("test", MaxSamples))}
    /\ DataIdle
    /\ RunIdle

NextWorkers ==
    \/ NextData
    \/ \E w \in 1..MaxWorkers : WorkerFetch(w)
    \/ MultiProcessNext

SpecWorkers == InitWorkers /\ [][NextWorkers]_vars

\* test_step on the next batch of test_dataloader(): a test pass over the wrapper
\* once fit has returned (train() itself starts none)
NumTestBatches == NumBatches(Len(TestSource), batch_size)
TestBatchRows(k) == Len(BatchIndices(SequentialSampler(Len(TestSource)), batch_size, k))

TestStep ==
    /\ pc \in {"Stopped", "Test"}
    /\ batch_idx < NumTestBatches
    /\ \E loss \in model_losses.val : TRUE
    /\ pc' = "Test"
    /\ batch_idx' = batch_idx + 1
    /\ trace' = Append(trace, Executed("test", batch_idx + 1,
                                       TestBatchRows(batch_idx + 1), TRUE))
    /\ global_step' = global_step + StepUpdates("test")
    /\ UNCHANGED <<device, trainer_precision, current_epoch, stop_reason, error,
                   training_step_outputs, validation_step_outputs,
                   average_training_loss, average_validation_loss,
                   val_loss_sum, val_loss_rows, val_loss,
                   best_score, wait_count, should_stop,
                   checkpoints, summaries, monitored, epoch_losses>>
    /\ UNCHANGED <<configVars, dataVars>>

\* runs of at most two epochs followed by a test pass
InitTest == Init /\ max_epochs <= 2

NextTest == Next \/ TestStep

SpecTest == InitTest /\ [][NextTest]_vars

\* the run of the example of C4: one batch per phase, patience 2, more than 5 epochs
C4Losses == <<100000, 90000, 95000, 97000, 110000>>

InitC4 ==
    /\ max_epochs = Len(C4Losses) + 1
    /\ early_stopping_patience_epochs = 2
    /\ save_only_last_epoch \in BOOLEAN
    /\ use_gpu \in BOOLEAN
    /\ gpu_available \in BOOLEAN
    /\ precision = 32
    /\ batch_size = 1
    /\ num_workers = 0
    /\ model_losses = [train |-> {100000}, val |-> {C4Losses[i] : i \in 1..Len(C4Losses)}]
    /\ train_dataset = DatasetOf("train", 1)
    /\ val_dataset = DatasetOf("dev", 1)
    /\ test_dataset = Some(DatasetOf("test", 1))
    /\ DataIdle
    /\ RunIdle

SpecC4 == InitC4 /\ [][Next]_vars

\* ------------------------------------------------------------ properties
\* epochs whose end-of-epoch callbacks have run
EpochsDecided == IF pc = "Stopped" THEN current_epoch + 1 ELSE current_epoch

\* epochs whose training_epoch_end has returned
EpochsEnded == IF pc \in {"Callbacks", "Stopped"} THEN current_epoch + 1 ELSE current_epoch

\* C1: with early_stopping_patience_epochs = 0 the run is never stopped early, and a
\* run that stops has run exactly the epochs 0..max_epochs-1, has built exactly
\* max_epochs epoch summaries and has stopped as Completed, whatever the losses.
C1_NoPatienceRunsAllEpochs ==
    early_stopping_patience_epochs = 0 =>
        /\ stop_reason # "EarlyStopped"
        /\ pc = "Stopped" =>
              /\ stop_reason = "Completed"
              /\ current_epoch = max_epochs - 1
              /\ Len(summaries) = max_epochs
              /\ \A i \in 1..Len(summaries) : summaries[i].epoch_index = i - 1

\* a completed run of MaxEpochs epochs without patience whose validation loss got worse
C1_Witness ==
    /\ early_stopping_patience_epochs = 0
    /\ max_epochs = MaxEpochs
    /\ pc = "Stopped"
    /\ Len(monitored) >= 2
    /\ Less(monitored[1], monitored[2])

\* C2: without early stopping, a run that stops has written one checkpoint directory,
\* of epoch max_epochs-1, under save_only_last_epoch, and otherwise max_epochs
\* directories, one per epoch 0..max_epochs-1.
C2_CheckpointsOfCompletedRun ==
    (early_stopping_patience_epochs = 0 /\ pc = "Stopped") =>
        LET dirs == {checkpoints[i].path : i \in 1..Len(checkpoints)}
        IN  IF save_only_last_epoch
            THEN /\ Cardinality(dirs) = 1
                 /\ Len(checkpoints) = 1
                 /\ checkpoints[1].path.epoch = max_epochs - 1
            ELSE /\ Cardinality(dirs) = max_epochs
                 /\ Len(checkpoints) = max_epochs
                 /\ \A i \in 1..Len(checkpoints) : checkpoints[i].path.epoch = i - 1

C2_Witness ==
    /\ early_stopping_patience_epochs = 0
    /\ save_only_last_epoch
    /\ max_epochs = MaxEpochs
    /\ pc = "Stopped"
    /\ Len(checkpoints) = 1

RECURSIVE BestOf(_, _)
\* the lowest of the first k monitored validation losses (Inf for k = 0)
BestOf(h, k) ==
    IF k = 0 THEN Inf
    ELSE LET b == BestOf(h, k - 1) IN IF Less(h[k], b) THEN h[k] ELSE b

\* epoch k (1-based) did not go strictly below the best of the epochs before it
NotImproved(h, k) == ~Less(h[k], BestOf(h, k - 1))

\* the p epochs ending with epoch k are all not improved
StaleFor(h, k, p) == k >= p /\ \A j \in (k - p + 1)..k : NotImproved(h, j)

RECURSIVE TrailingStale(_, _)
\* number of consecutive not improved epochs ending with epoch k
TrailingStale(h, k) ==
    IF k = 0 \/ ~NotImproved(h, k) THEN 0 ELSE 1 + TrailingStale(h, k - 1)

\* C3: with patience P > 0 the run is stopped early at the end of exactly the first
\* epoch that closes P consecutive epochs without a validation loss strictly below
\* the best so far (an equal loss is no improvement); a strictly lower loss resets
\* the count of such epochs to zero.
C3_EarlyStoppingRule ==
    early_stopping_patience_epochs > 0 =>
        /\ \A k \in 1..EpochsDecided :
              StaleFor(monitored, k, early_stopping_patience_epochs)
                  <=> (k = EpochsDecided /\ pc = "Stopped" /\ stop_reason = "EarlyStopped")
        /\ wait_count = TrailingStale(monitored, EpochsDecided)

\* stopped early by an epoch whose validation loss equals the best so far
C3_Witness ==
    /\ early_stopping_patience_epochs = 1
    /\ pc = "Stopped"
    /\ stop_reason = "EarlyStopped"
    /\ current_epoch = 1
    /\ ~Less(monitored[1], monitored[2])
    /\ ~Less(monitored[2], monitored[1])

\* the monitored validation losses so far are the first ones of `losses`
MonitoredPrefixOf(losses) ==
    /\ Len(monitored) <= Len(losses)
    /\ \A k \in 1..Len(monitored) : monitored[k] = [num |-> losses[k], den |-> 1]

\* C4 as stated: with patience 2, more than 5 epochs and validation losses
\* 1.0, 0.9, 0.95, 0.97, 1.1 the run stops early after epoch index 4.
C4_StopsAfterEpoch4 ==
    (/\ early_stopping_patience_epochs = 2
     /\ max_epochs > 5
     /\ pc = "Stopped"
     /\ MonitoredPrefixOf(C4Losses)) =>
        /\ stop_reason = "EarlyStopped"
        /\ current_epoch = 4
        /\ Len(summaries) = 5

\* C4 amended: with patience 2, more than 5 epochs and validation losses
\* 1.0, 0.9, 0.95, 0.97, ... the run stops early after epoch index 3, the second
\* consecutive epoch that does not improve on 0.9, and not before; epoch 4 never runs.
C4_StopsAfterEpoch3 ==
    (/\ early_stopping_patience_epochs = 2
     /\ max_epochs > 5
     /\ MonitoredPrefixOf(C4Losses)) =>
        /\ current_epoch <= 3
        /\ Len(monitored) <= 4
        /\ pc = "Stopped" =>
              /\ stop_reason = "EarlyStopped"
              /\ current_epoch = 3
              /\ Len(summaries) = 4
              /\ Len(monitored) = 4

C4_Witness ==
    /\ early_stopping_patience_epochs = 2
    /\ max_epochs > 5
    /\ pc = "Stopped"
    /\ stop_reason = "EarlyStopped"
    /\ Len(monitored) = 4
    /\ MonitoredPrefixOf(C4Losses)

\* C5: every checkpoint written at the end of epoch i is named with the average
\* training loss and the average validation loss of the same epoch i: the validation
\* loss was assigned by the validation phase of epoch i, never left undefined, and
\* never left over from an earlier epoch or from the sanity check before training.
C5_CheckpointNamedWithLossesOfItsEpoch ==
    \A i \in 1..Len(checkpoints) :
        LET c == checkpoints[i]
        IN  /\ c.val_of = ToString(c.path.epoch)
            /\ \E j \in 1..Len(summaries) :
                  /\ summaries[j].epoch_index = c.path.epoch
                  /\ summaries[j].average_train_loss = c.path.train_loss
                  /\ summaries[j].average_validation_loss = c.path.val_loss
            /\ c.path.epoch + 1 <= Len(monitored)

\* checkpoints of two epochs whose validation losses differ
C5_Witness ==
    /\ Len(checkpoints) >= 2
    /\ checkpoints[1].path.val_loss # checkpoints[2].path.val_loss
    /\ checkpoints[2].val_of = "1"

\* C6: a finished Test pass equals the Validation pass (content and order) when the
\* test dataset is None or empty, and otherwise is made of the test dataset only.
C6_TestFallsBackToValidation ==
    (it_part = "test" /\ PassDone) =>
        IF test_dataset.is_none \/ Len(test_dataset.samples) = 0
        THEN /\ Flatten(delivered) = val_dataset
             /\ last_pass.part = "val" => delivered = last_pass.batches
        ELSE /\ Flatten(delivered) = test_dataset.samples
             /\ \A k \in 1..Len(delivered) : \A j \in 1..Len(delivered[k]) :
                   delivered[k][j][1] = "test"

\* a Test pass over an empty, not None, test dataset right after a Validation pass
C6_Witness ==
    /\ it_part = "test"
    /\ PassDone
    /\ test_dataset = Some(<<>>)
    /\ last_pass.part = "val"
    /\ Len(delivered) >= 2

\* the dataset a pass of the given partition has to cover
PartitionSamples(part) ==
    IF part = "train" THEN train_dataset
    ELSE IF part = "val" THEN val_dataset
    ELSE IF test_dataset.is_none \/ test_dataset.samples = <<>> THEN val_dataset
    ELSE test_dataset.samples

\* C7: a pass yields every sample of its partition exactly once; Validation and Test
\* passes are in dataset order and equal to the pass before them; a Train pass covers
\* the same multiset as the pass before it; every batch has batch_size rows except
\* the last of the pass, which has 1..batch_size rows.
C7_PassCoversPartitionOnce ==
    it_part # None =>
        /\ \A k \in 1..Len(delivered) :
              /\ Len(delivered[k]) \in 1..batch_size
              /\ Len(delivered[k]) < batch_size => (PassDone /\ k = Len(delivered))
        /\ PassDone =>
              /\ SeqToBag(Flatten(delivered)) = SeqToBag(PartitionSamples(it_part))
              /\ it_part # "train" => Flatten(delivered) = PartitionSamples(it_part)
              /\ last_pass.part = it_part =>
                    IF it_part = "train"
                    THEN SeqToBag(Flatten(delivered)) = SeqToBag(Flatten(last_pass.batches))
                    ELSE delivered = last_pass.batches

\* a finished Train pass, ragged at the end, ordered otherwise than the pass before
C7_Witness ==
    /\ it_part = "train"
    /\ PassDone
    /\ last_pass.part = "train"
    /\ last_pass.batches # delivered
    /\ Len(delivered) >= 2
    /\ Len(delivered[Len(delivered)]) < batch_size

\* C8 as stated: the resolved device is the GPU exactly when a GPU is available and
\* requested, and the CPU otherwise.
C8_GpuIffAvailableAndRequested ==
    device # None =>
        /\ device = "cuda" <=> (use_gpu /\ gpu_available)
        /\ device = "cpu" <=> ~(use_gpu /\ gpu_available)

\* C9 as stated: under save_only_last_epoch every stopped run has written exactly one
\* checkpoint, that of the last epoch it ran.
C9_LastRunEpochIsSaved ==
    (save_only_last_epoch /\ pc = "Stopped") =>
        /\ Len(checkpoints) = 1
        /\ checkpoints[1].path.epoch = current_epoch

\* C10: with save_only_last_epoch = false the checkpoints written are those of the
\* epochs whose training_epoch_end has returned, one each, so the epoch that stops
\* the run early has its checkpoint too.
C10_CheckpointPerEndedEpoch ==
    ~save_only_last_epoch =>
        /\ Len(checkpoints) = EpochsEnded
        /\ \A i \in 1..Len(checkpoints) : checkpoints[i].path.epoch = i - 1
        /\ (pc = "Stopped" /\ stop_reason = "EarlyStopped") =>
              /\ Len(checkpoints) >= 1
              /\ checkpoints[Len(checkpoints)].path.epoch = current_epoch

\* stopped early before the last epoch, every epoch run has its checkpoint
C10_Witness ==
    /\ ~save_only_last_epoch
    /\ pc = "Stopped"
    /\ stop_reason = "EarlyStopped"
    /\ current_epoch < max_epochs - 1
    /\ Len(checkpoints) = current_epoch + 1

RECURSIVE RowsBefore(_, _, _, _)
\* rows of the batches stepped successfully by `op` steps of epoch e before position i
RowsBefore(t, op, e, i) ==
    IF i <= 1 THEN 0
    ELSE RowsBefore(t, op, e, i - 1)
         + (IF t[i - 1].op = op /\ t[i - 1].epoch = e /\ t[i - 1].ok
            THEN t[i - 1].rows ELSE 0)

\* training steps that succeeded before position i
TrainStepsBefore(t, i) == Cardinality({j \in 1..(i - 1) : t[j].op = "train" /\ t[j].ok})

\* the operation executed last (the trace only grows: what holds of the last
\* operation in every state holds of every operation of a run)
LastOp == trace[Len(trace)]

\* within an epoch every training batch is stepped before the first validation step,
\* no training step of the epoch follows a validation step of it, a validation step
\* sees the parameters left by the training phase of its epoch, and an epoch starts
\* after the whole validation phase of the epoch before it
TrainThenValidate ==
    Len(trace) >= 1 =>
        /\ LastOp.op = "val" =>
              /\ RowsBefore(trace, "train", LastOp.epoch, Len(trace)) = Len(train_dataset)
              /\ LastOp.params = TrainStepsBefore(trace, Len(trace))
        /\ LastOp.op = "train" =>
              /\ \A j \in 1..(Len(trace) - 1) :
                    ~(trace[j].op = "val" /\ trace[j].epoch = LastOp.epoch)
              /\ LastOp.epoch > 0 =>
                    RowsBefore(trace, "val", LastOp.epoch - 1, Len(trace)) = Len(val_dataset)

\* C11 as stated: train fully, then validate fully, epoch after epoch, and no
\* validation step runs before the first training step of epoch 0.
C11_NoValidationBeforeTraining ==
    /\ TrainThenValidate
    /\ (Len(trace) >= 1 /\ LastOp.op \in {"val", "sanity"}) =>
          \E j \in 1..(Len(trace) - 1) : trace[j].op = "train" /\ trace[j].epoch = 0

\* C11 amended: train fully, then validate fully, epoch after epoch; the only
\* validation steps before the first training step of epoch 0 are those of the
\* sanity check, at most NumSanityValSteps, run first and on the untrained parameters.
C11_SequentialPhases ==
    /\ TrainThenValidate
    /\ Len(trace) >= 1 =>
          /\ LastOp.op = "sanity" =>
                /\ Len(trace) <= NumSanityValSteps
                /\ LastOp.params = 0
                /\ \A j \in 1..(Len(trace) - 1) : trace[j].op = "sanity"
          /\ LastOp.op = "val" =>
                \E j \in 1..(Len(trace) - 1) : trace[j].op = "train" /\ trace[j].epoch = 0

\* the second epoch is being validated, after a sanity check and two training phases
C11_Witness ==
    /\ Len(trace) >= 1
    /\ trace[1].op = "sanity"
    /\ \E i \in 1..Len(trace) : trace[i].op = "val" /\ trace[i].epoch = 1
    /\ NumTrainBatches >= 2

\* the validation averages the epoch summaries (and checkpoint names) record
RecordedValidationLosses ==
    [k \in 1..Len(summaries) |-> [num |-> summaries[k].average_validation_loss, den |-> 1]]

\* C12 as stated: the early-stopping decision taken at the end of every epoch is the
\* decision the recorded average_validation_loss values (unweighted mean of the batch
\* losses, rounded to 4 digits) give under the same rule.
C12_DecisionFromRecordedAverages ==
    early_stopping_patience_epochs > 0 =>
        \A k \in 1..EpochsDecided :
            StaleFor(RecordedValidationLosses, k, early_stopping_patience_epochs)
                <=> (k = EpochsDecided /\ pc = "Stopped" /\ stop_reason = "EarlyStopped")

C14_StoppedIsTerminal ==
    /\ current_epoch = 0
    /\ [][/\ pc = "Stopped" => (pc' = "Stopped" /\ UNCHANGED runVars)
          /\ current_epoch' \in {current_epoch, current_epoch + 1}
          /\ current_epoch' = current_epoch + 1 => (pc = "Callbacks" /\ pc' = "Train")
          /\ current_epoch' < max_epochs]_vars

\* stopped early after the second of three epochs
C14_Witness ==
    /\ pc = "Stopped"
    /\ stop_reason = "EarlyStopped"
    /\ max_epochs = 3
    /\ current_epoch = 1
    /\ Len(summaries) = 2

\* checkpoint writes that succeeded
SavesDone == Cardinality({i \in 1..Len(trace) : trace[i].op = "save" /\ trace[i].ok})

\* C15: an error aborts the run and is surfaced; the operation that failed was
\* attempted once and is the last thing the run did: no step, no epoch and no
\* checkpoint write follows it.
C15_FailureAbortsWithoutRetry ==
    /\ (error # None) <=> (pc = "Aborted")
    /\ \A i \in 1..Len(trace) : ~trace[i].ok => (i = Len(trace) /\ pc = "Aborted")
    /\ error \in {"ForwardPassError", "CheckpointWriteError"} =>
          (Len(trace) >= 1 /\ ~trace[Len(trace)].ok)
    /\ Len(checkpoints) = SavesDone

\* the checkpoint write of the second epoch failed after the first one succeeded
C15_Witness ==
    /\ pc = "Aborted"
    /\ error = "CheckpointWriteError"
    /\ current_epoch = 1
    /\ Len(checkpoints) = 1

\* a is the mean of the losses (units 1e-5) rounded half-to-even to units of 1e-4
IsRoundedMean(a, losses) ==
    LET n == Len(losses)
        diff == 10 * n * a - SumSeq(losses)
        dist == IF diff < 0 THEN 0 - diff ELSE diff
    IN  /\ n > 0
        /\ 2 * dist <= 10 * n
        /\ 2 * dist = 10 * n => a % 2 = 0

\* steps of the given kind that succeeded in epoch e
StepsOf(op, e) ==
    Cardinality({i \in 1..Len(trace) : trace[i].op = op /\ trace[i].epoch = e /\ trace[i].ok})

\* C16: the averages of an epoch are the (rounded) unweighted means of the batch
\* losses of exactly the training steps and the validation steps of that epoch.
C16_AveragesAreMeansOfBatchLosses ==
    pc = "Callbacks" =>
        LET s == summaries[Len(summaries)]
        IN  /\ s.epoch_index = current_epoch
            /\ IsRoundedMean(s.average_train_loss, epoch_losses.train)
            /\ IsRoundedMean(s.average_validation_loss, epoch_losses.val)
            /\ Len(epoch_losses.train) = StepsOf("train", current_epoch)
            /\ Len(epoch_losses.val) = StepsOf("val", current_epoch)
            /\ average_training_loss.value = s.average_train_loss
            /\ average_validation_loss.value = s.average_validation_loss

\* the second epoch ended with a ragged last validation batch whose loss differs
C16_Witness ==
    /\ pc = "Callbacks"
    /\ current_epoch = 1
    /\ Len(epoch_losses.val) = 2
    /\ ValBatchRows(1) # ValBatchRows(2)
    /\ epoch_losses.val[1] # epoch_losses.val[2]
    /\ epoch_losses.train[1] # epoch_losses.train[2]

\* C18: no checkpoint path is written twice in a run: at most one checkpoint per
\* epoch, and checkpoints of different epochs have different paths.
C18_CheckpointPathsDistinct ==
    \A i, j \in 1..Len(checkpoints) :
        i # j => /\ checkpoints[i].path # checkpoints[j].path
                 /\ checkpoints[i].path.epoch # checkpoints[j].path.epoch

\* two epochs with equal average losses, each with its checkpoint
C18_Witness ==
    /\ Len(checkpoints) >= 2
    /\ checkpoints[1].path.train_loss = checkpoints[2].path.train_loss
    /\ checkpoints[1].path.val_loss = checkpoints[2].path.val_loss

\* batch indices handed out and not yet delivered, wherever they are
InFlight ==
    LET queued(w) == {index_queues[w][j] : j \in 1..Len(index_queues[w])}
    IN  [k \in rcvd_idx..(send_idx - 1) |->
            Cardinality({w \in 1..MaxWorkers : k \in queued(w)})
            + Cardinality({j \in 1..Len(data_queue) : data_queue[j].idx = k})
            + Cardinality({r \in task_info : r.idx = k})]

\* C17: whatever the number of workers and their interleaving, the batches delivered
\* so far are the first batches of the pass in the order and with the contents the
\* loader without workers delivers them (same sampler order); no batch is delivered
\* twice, and every batch handed to a worker and not yet delivered is held exactly
\* once, so that none is lost; a finished pass has delivered every batch.
C17_WorkersPreserveOrder ==
    /\ it_part # None =>
          /\ Len(delivered) <= NumBatches(Len(it_order), batch_size)
          /\ \A k \in 1..Len(delivered) : delivered[k] = Fetch(k)
          /\ send_idx <= NumBatches(Len(it_order), batch_size) + 1
          /\ \A k \in rcvd_idx..(send_idx - 1) : InFlight[k] = 1
          /\ num_workers > 0 =>
                rcvd_idx + Min(PrefetchFactor * num_workers,
                               NumBatches(Len(it_order), batch_size) - Len(delivered))
                   = send_idx
    /\ last_pass.part # None =>
          /\ Len(last_pass.batches) = NumBatches(Len(PartitionSamples(last_pass.part)), batch_size)
          /\ SeqToBag(Flatten(last_pass.batches)) = SeqToBag(PartitionSamples(last_pass.part))
          /\ last_pass.part # "train" => Flatten(last_pass.batches) = PartitionSamples(last_pass.part)

\* two workers: the second batch was fetched first and is held back while the first
\* is delivered; the pass then ends with both batches in order
C17_Witness ==
    /\ num_workers = 2
    /\ it_part = "train"
    /\ it_order # SequentialSampler(Len(it_order))
    /\ Len(delivered) = 1
    /\ \E r \in task_info : r.idx = 2 /\ r.data # delivered[1]

====
